---- MODULE Spec2Model ----
(***************************************************************************)
(* Model of the concurrent batch-enrichment pipeline of src/core.py:       *)
(* check_citations (the dispatcher), process_citations_batch (one worker   *)
(* thread per batch), fetch_case_data_from_court_listener (metadata lookup *)
(* with its retry loop) and gpt4_parse_citations (validation call).        *)
(*                                                                         *)
(* A normalized citation is represented by its index 1..N in the sequence  *)
(* the normalizer returned; the first component of a result tuple is that  *)
(* index (it stands for the citation's text).                              *)
(***************************************************************************)
EXTENDS Integers, Sequences, FiniteSets, Bags, TLC

\* ---------------------------------------------------------------- bounds
MaxCitations == 3        \* most citations the normalizer yields
MaxBatchSize == 2        \* largest batch size
MaxRetries == 3          \* largest max_retries
MaxRequests == 4         \* most HTTP requests of one run: citations * max_retries
MaxThreads == 2          \* most worker threads of one run
MaxFairCitations == 2    \* most citations of one run under fair scheduling
MaxFairRetries == 2      \* largest max_retries under fair scheduling
MaxFairRequests == 3     \* most HTTP requests of one run under fair scheduling
MaxEquivCitations == 6   \* most citations when the two pipelines are compared
MaxDispatchCitations == 12  \* citations in the dispatch-only specification
MaxDispatchBatchSize == 5   \* largest batch size in the dispatch-only specification

\* ------------------------------------------------------ program constants
DEFAULT_RETRY_AFTER == 60   \* response.headers.get('Retry-After', 60)
DEFAULT_MAX_RETRIES == 3    \* int(os.getenv('MAX_RETRIES', '3'))
BACKOFF_BASE == 2           \* time.sleep(2 ** attempt)
MAX_WORKERS == 10           \* int(os.getenv('MAX_WORKERS', '10')), read nowhere
DEFAULT_BATCH_SIZE == 5     \* int(os.getenv('BATCH_SIZE', '5'))
LEGACY_BATCH_SIZE == 5      \* batch_size = 5 in arm.py

None == <<>>

VARIABLES
    text,                  \* kind of the text argument: "nonstr", "blank", "text"
    openai_api_key,        \* TRUE iff config.openai_api_key is non-empty
    court_listener_token,  \* TRUE iff config.court_listener_token is non-empty
    batch_size,            \* batch size in effect (argument or config.batch_size)
    max_retries,           \* config.max_retries
    normalized_citations,  \* what the normalizer yields for the text
    pc,                    \* position of check_citations
    i,                     \* index of the dispatch loop (0-based, as in the code)
    j,                     \* number of threads joined so far
    threads,               \* started worker threads, in start order
    results_queue,         \* the shared Queue
    results,               \* the list check_citations returns
    error,                 \* exception raised to the caller, or "none"
    client,                \* TRUE iff an OpenAI client has been constructed
    completions,           \* completion requests sent so far
    call,                  \* the enrichment-client operation called directly
    legacy                 \* the run of arm.py's check_citations on the same list

vars == <<text, openai_api_key, court_listener_token, batch_size, max_retries,
          normalized_citations, pc, i, j, threads, results_queue, results, error,
          client, completions, call, legacy>>

inputs == <<text, openai_api_key, court_listener_token, batch_size, max_retries,
            normalized_citations>>

\* ------------------------------------------------------------- helpers
RECURSIVE Pow(_, _)
Pow(b, e) == IF e <= 0 THEN 1 ELSE b * Pow(b, e - 1)

Min(a, b) == IF a <= b THEN a ELSE b

\* Python slice seq[lo:hi] for 0 <= lo, lo <= hi (0-based, hi exclusive, clipped)
Slice(seq, lo, hi) == SubSeq(seq, lo + 1, Min(hi, Len(seq)))

\* 1..n as a sequence: the citations the normalizer found
Citations(n) == [k \in 1..n |-> k]

\* ------------------------------------------------- HTTP responses (inputs)
Resp(s, h, v, ok) == [status |-> s, has_retry_after |-> h, retry_after |-> v, json_ok |-> ok]

Digits == <<"0", "1", "2", "3", "4", "5", "6", "7", "8", "9">>

DigitValue(c) == (CHOOSE d \in 1..10 : Digits[d] = c) - 1

IsDigit(c) == \E d \in 1..10 : Digits[d] = c

\* int(s) of a header value given as a sequence of characters: defined for a
\* non-empty run of decimal digits, a ValueError otherwise
IntParses(s) == Len(s) > 0 /\ \A k \in 1..Len(s) : IsDigit(s[k])

RECURSIVE IntOf(_)
IntOf(s) == IF Len(s) = 0 THEN 0
            ELSE 10 * IntOf(SubSeq(s, 1, Len(s) - 1)) + DigitValue(s[Len(s)])

RetryAfterValues == { <<"2">>, <<"1", "0">>, <<"W", "e", "d">> }

\* the entry of a thread's attempt history for a request that raised a
\* RequestException instead of returning a response
NoResponse == Resp(0, FALSE, <<>>, FALSE)

Responses ==
    { Resp(200, FALSE, <<>>, TRUE), Resp(200, FALSE, <<>>, FALSE),
      Resp(100, FALSE, <<>>, TRUE), Resp(204, FALSE, <<>>, TRUE),
      Resp(302, FALSE, <<>>, TRUE), Resp(404, FALSE, <<>>, TRUE),
      Resp(500, FALSE, <<>>, TRUE), Resp(503, FALSE, <<>>, TRUE),
      Resp(429, FALSE, <<>>, TRUE) }
    \cup { Resp(429, TRUE, v, TRUE) : v \in RetryAfterValues }

\* a direct call of one of the two enrichment-client operations: the
\* function, whether its argument has the expected type (str for the lookup,
\* list for the validation call), the argument's content (characters or
\* citations) and whether a client object was passed
DirectCall(fn, typed, value, given) ==
    [fn |-> fn, typed |-> typed, value |-> value, client |-> given]

\* check_citations is what runs: no operation was called directly
NoCall == DirectCall("none", FALSE, <<>>, FALSE)

\* arm.py's check_citations has not been called
LegacyIdle == [pc |-> "idle", i |-> 0, j |-> 0, threads |-> <<>>, results |-> <<>>]

\* ----------------------------------------------------------------- Init
TypeInputs(maxN, maxB, retries, maxReq, maxThreads) ==
    /\ text \in {"nonstr", "blank", "text"}
    /\ openai_api_key \in BOOLEAN
    /\ court_listener_token \in BOOLEAN
    /\ batch_size \in (-1)..maxB
    /\ max_retries \in retries
    /\ normalized_citations \in
          IF text = "text" THEN { Citations(n) : n \in 0..maxN } ELSE { <<>> }
    /\ Len(normalized_citations) * max_retries <= maxReq
    /\ batch_size > 0 => Len(normalized_citations) <= maxThreads * batch_size
    \* no step reads the token: runs without it are enumerated for texts of
    \* at most one citation
    /\ ~court_listener_token => Len(normalized_citations) <= 1

Start ==
    /\ pc = "call"
    /\ i = 0
    /\ j = 0
    /\ threads = <<>>
    /\ results_queue = <<>>
    /\ results = <<>>
    /\ error = "none"
    /\ client = FALSE
    /\ completions = 0
    /\ call = NoCall
    /\ legacy = LegacyIdle

Init == TypeInputs(MaxCitations, MaxBatchSize, 0..MaxRetries, MaxRequests, MaxThreads) /\ Start

\* ------------------------------------------------------------ the Queue
\* an unsynchronised store into the slot of the last entry: a concurrent
\* append overwrites it
PutOverwriting(q, item) == IF q = <<>> THEN <<item>> ELSE [q EXCEPT ![Len(q)] = item]

\* a LifoQueue: the item put last is read first
PutLifo(q, item) == <<item>> \o q

\* Queue.put on an unbounded Queue: appends the item under the queue's mutex
Put(q, item) == Append(q, item)

\* a do-while loop: the first request is sent whatever max_retries is
EnterFetchRequestingFirst(th) ==
    [th EXCEPT !.attempt = 0, !.wait = 0, !.hist = <<>>, !.sleeps = <<>>,
               !.court_listener_data = None,
               !.pc = "request"]

\* ------------------------------------- fetch_case_data_from_court_listener
\* entering the function for one citation: the loop is range(max_retries)
EnterFetch(th) ==
    [th EXCEPT !.attempt = 0, !.wait = 0, !.hist = <<>>, !.sleeps = <<>>,
               !.court_listener_data = None,
               !.pc = IF 0 < max_retries THEN "request" ELSE "gpt"]

\* one attempt too many: the loop runs while attempt <= max_retries
LoopAdvanceOffByOne(th) ==
    IF th.attempt + 1 <= max_retries
    THEN [th EXCEPT !.attempt = th.attempt + 1, !.pc = "request"]
    ELSE [th EXCEPT !.attempt = th.attempt + 1, !.pc = "gpt",
                    !.court_listener_data = None]

\* the end of one loop iteration: next attempt, or fall out of the loop,
\* log the failure and return None
LoopAdvance(th) ==
    IF th.attempt + 1 < max_retries
    THEN [th EXCEPT !.attempt = th.attempt + 1, !.pc = "request"]
    ELSE [th EXCEPT !.attempt = th.attempt + 1, !.pc = "gpt",
                    !.court_listener_data = None]

\* a fixed delay of one second between failed attempts
AfterFailureFixedDelay(th) ==
    IF th.attempt < max_retries - 1
    THEN [th EXCEPT !.pc = "sleep", !.wait = 1]
    ELSE LoopAdvance(th)

\* a server error or a caught RequestException: back off unless this was
\* the last attempt
AfterFailure(th) ==
    IF th.attempt < max_retries - 1
    THEN [th EXCEPT !.pc = "sleep", !.wait = Pow(BACKOFF_BASE, th.attempt)]
    ELSE LoopAdvance(th)

\* wait_time = int(response.headers.get('Retry-After', 60))
WaitTimeParses(r) == ~r.has_retry_after \/ IntParses(r.retry_after)

\* the header is ignored and the default wait is always used
WaitTimeIgnoresHeader(r) == DEFAULT_RETRY_AFTER

WaitTime(r) == IF r.has_retry_after THEN IntOf(r.retry_after) ELSE DEFAULT_RETRY_AFTER

\* a 429 that is not counted as an attempt: the attempt is repeated after
\* the wait
RateLimitedUncounted(th, r) ==
    IF WaitTimeParses(r)
    THEN [th EXCEPT !.pc = "sleep", !.wait = WaitTime(r), !.attempt = th.attempt - 1]
    ELSE [th EXCEPT !.pc = "except"]

\* the 429 branch: sleep for the Retry-After seconds; int() of a header that
\* is not an integer raises ValueError, which the function does not catch
RateLimited(th, r) ==
    IF WaitTimeParses(r)
    THEN [th EXCEPT !.pc = "sleep", !.wait = WaitTime(r)]
    ELSE [th EXCEPT !.pc = "except"]

\* every 2xx status is taken as success and its body returned
OnResponseAcceptingAny2xx(th, r) ==
    LET c == th.citations_batch[th.idx] IN
    IF r.status \in 200..299 THEN
        IF r.json_ok
        THEN [th EXCEPT !.hist = Append(th.hist, r), !.pc = "gpt",
                        !.court_listener_data = <<"json", c>>]
        ELSE AfterFailure([th EXCEPT !.hist = Append(th.hist, r)])
    ELSE IF r.status = 429
        THEN RateLimited([th EXCEPT !.hist = Append(th.hist, r)], r)
    ELSE IF r.status >= 500
        THEN AfterFailure([th EXCEPT !.hist = Append(th.hist, r)])
        ELSE [th EXCEPT !.hist = Append(th.hist, r), !.pc = "gpt",
                        !.court_listener_data = None]

\* a client error (4xx other than 429) is treated like a server error: the
\* loop backs off and asks again
OnResponseRetryingClientError(th, r) ==
    LET c == th.citations_batch[th.idx] IN
    IF r.status = 200 THEN
        IF r.json_ok
        THEN [th EXCEPT !.hist = Append(th.hist, r), !.pc = "gpt",
                        !.court_listener_data = <<"json", c>>]
        ELSE AfterFailure([th EXCEPT !.hist = Append(th.hist, r)])
    ELSE IF r.status = 429
        THEN RateLimited([th EXCEPT !.hist = Append(th.hist, r)], r)
    ELSE IF r.status >= 400
        THEN AfterFailure([th EXCEPT !.hist = Append(th.hist, r)])
        ELSE [th EXCEPT !.hist = Append(th.hist, r), !.pc = "gpt",
                        !.court_listener_data = None]

\* the body of one loop iteration when requests.get returned response r; the
\* JSON decoding error of response.json() is a RequestException (requests
\* 2.27 and later) and is handled as one
OnResponse(th, r) ==
    LET c == th.citations_batch[th.idx] IN
    IF r.status = 200 THEN
        IF r.json_ok
        THEN [th EXCEPT !.hist = Append(th.hist, r), !.pc = "gpt",
                        !.court_listener_data = <<"json", c>>]
        ELSE AfterFailure([th EXCEPT !.hist = Append(th.hist, r)])
    ELSE IF r.status = 429
        THEN RateLimited([th EXCEPT !.hist = Append(th.hist, r)], r)
    ELSE IF r.status >= 500
        THEN AfterFailure([th EXCEPT !.hist = Append(th.hist, r)])
        ELSE [th EXCEPT !.hist = Append(th.hist, r), !.pc = "gpt",
                        !.court_listener_data = None]

\* response.json() of a 200 response with a malformed body raised the plain
\* ValueError of requests before 2.27, which the function does not catch
OnJsonValueError(th, r) == [th EXCEPT !.hist = Append(th.hist, r), !.pc = "except"]

\* requests.get raised a RequestException
OnRequestException(th) == AfterFailure([th EXCEPT !.hist = Append(th.hist, NoResponse)])

\* time.sleep returned
OnWake(th) == LoopAdvance([th EXCEPT !.sleeps = Append(th.sleeps, th.wait), !.wait = 0])

\* ------------------------------------------------- process_citations_batch
\* the for loop moves to citation k of the batch, or the thread ends
NextCitation(th, k) ==
    IF k <= Len(th.citations_batch)
    THEN EnterFetch([th EXCEPT !.idx = k])
    ELSE [th EXCEPT !.idx = k, !.pc = "done", !.attempt = 0, !.wait = 0,
                    !.hist = <<>>, !.sleeps = <<>>, !.court_listener_data = None]

\* the handler records the error text in place of the feedback
HandlerResultWithError(c) == <<c, <<"error", c>>, None>>

\* the tuple the except handler records
HandlerResult(c) == <<c, None, None>>

\* a thread object as created and started for one batch
NewThread(batch) ==
    NextCitation([citations_batch |-> batch, idx |-> 1, pc |-> "request",
                  attempt |-> 0, wait |-> 0, hist |-> <<>>, sleeps |-> <<>>,
                  court_listener_data |-> None, recorded |-> <<>>,
                  failed |-> {}], 1)

Record(th, item) == NextCitation([th EXCEPT !.recorded = Append(th.recorded, item)],
                                 th.idx + 1)

Threads == 1..Len(threads)

\* a lock shared by the workers is held across a wait: a thread sends its
\* request only while no other thread sleeps
RequestBehindSleepers(t) ==
    /\ t \in Threads
    /\ threads[t].pc = "request"
    /\ \A u \in Threads : threads[u].pc # "sleep"
    /\ \E r \in Responses :
          threads' = [threads EXCEPT ![t] = OnResponse(threads[t], r)]
    /\ UNCHANGED <<inputs, legacy, client, completions, call, pc, i, j, results_queue, results, error>>

\* one HTTP request of thread t is answered with response r
Request(t) ==
    /\ t \in Threads
    /\ threads[t].pc = "request"
    /\ \E r \in Responses :
          threads' = [threads EXCEPT ![t] = OnResponse(threads[t], r)]
    /\ UNCHANGED <<inputs, legacy, client, completions, call, pc, i, j, results_queue, results, error>>

\* one HTTP request of thread t is answered 200 with a malformed body and the
\* installed requests raises a plain ValueError from response.json()
JsonValueError(t) ==
    /\ t \in Threads
    /\ threads[t].pc = "request"
    /\ \E r \in Responses :
          /\ r.status = 200 /\ ~r.json_ok
          /\ threads' = [threads EXCEPT ![t] = OnJsonValueError(threads[t], r)]
    /\ UNCHANGED <<inputs, legacy, client, completions, call, pc, i, j, results_queue, results, error>>

\* one HTTP request of thread t fails with a RequestException
RequestException(t) ==
    /\ t \in Threads
    /\ threads[t].pc = "request"
    /\ threads' = [threads EXCEPT ![t] = OnRequestException(threads[t])]
    /\ UNCHANGED <<inputs, legacy, client, completions, call, pc, i, j, results_queue, results, error>>

\* the sleep of thread t (Retry-After wait or backoff) ends
Wake(t) ==
    /\ t \in Threads
    /\ threads[t].pc = "sleep"
    /\ threads' = [threads EXCEPT ![t] = OnWake(threads[t])]
    /\ UNCHANGED <<inputs, legacy, client, completions, call, pc, i, j, results_queue, results, error>>

\* what one call of gpt4_parse_citations does: the exception it raises (or
\* "none"), the completion requests it sends, whether it constructs a client
\* of its own, and the value it returns
Outcome(err, requests, constructs, value) ==
    [error |-> err, requests |-> requests, constructs |-> constructs,
     value |-> value]

\* a failed completion request is sent a second time before giving up
Gpt4ParseCitationsRetrying(typed, citations, given, ok) ==
    IF ~typed THEN Outcome("TypeError", 0, FALSE, None)
    ELSE IF citations = <<>> THEN Outcome("ValueError: citations", 0, FALSE, None)
    ELSE IF ~given /\ ~openai_api_key
    THEN Outcome("ValueError: OPENAI_API_KEY", 0, FALSE, None)
    ELSE IF ok THEN Outcome("none", 1, ~given, <<"feedback">> \o citations)
    ELSE Outcome("none", 2, ~given, None)

\* gpt4_parse_citations(citations, client): the argument checks, the client
\* built when none was passed, then one completion request whose content is
\* returned (ok) or whose exception is caught and turned into None
Gpt4ParseCitations(typed, citations, given, ok) ==
    IF ~typed THEN Outcome("TypeError", 0, FALSE, None)
    ELSE IF citations = <<>> THEN Outcome("ValueError: citations", 0, FALSE, None)
    ELSE IF ~given /\ ~openai_api_key
    THEN Outcome("ValueError: OPENAI_API_KEY", 0, FALSE, None)
    ELSE IF ok THEN Outcome("none", 1, ~given, <<"feedback">> \o citations)
    ELSE Outcome("none", 1, ~given, None)

\* the queue is created with maxsize 1: put waits while the queue holds an
\* item
ValidateOnBoundedQueue(t) ==
    /\ t \in Threads
    /\ threads[t].pc = "gpt"
    /\ Len(results_queue) < 1
    /\ \E ok \in BOOLEAN :
          LET th == threads[t]
              c == th.citations_batch[th.idx]
              out == Gpt4ParseCitations(TRUE, <<c>>, client, ok)
              gpt4_feedback == out.value
              item == <<c, gpt4_feedback, th.court_listener_data>>
          IN /\ completions' = completions + out.requests
             /\ results_queue' = Put(results_queue, item)
             /\ threads' = [threads EXCEPT ![t] = Record(th, item)]
    /\ UNCHANGED <<inputs, legacy, client, call, pc, i, j, results, error>>

\* gpt4_parse_citations([citation_str], client) in the worker, and the
\* result tuple put on the queue
Validate(t) ==
    /\ t \in Threads
    /\ threads[t].pc = "gpt"
    /\ \E ok \in BOOLEAN :
          LET th == threads[t]
              c == th.citations_batch[th.idx]
              out == Gpt4ParseCitations(TRUE, <<c>>, client, ok)
              gpt4_feedback == out.value
              item == <<c, gpt4_feedback, th.court_listener_data>>
          IN /\ completions' = completions + out.requests
             /\ results_queue' = Put(results_queue, item)
             /\ threads' = [threads EXCEPT ![t] = Record(th, item)]
    /\ UNCHANGED <<inputs, legacy, client, call, pc, i, j, results, error>>

\* the handler records the tuple and the exception then ends the thread
ExceptAborts(t) ==
    /\ t \in Threads
    /\ threads[t].pc = "except"
    /\ LET th == threads[t]
           item == HandlerResult(th.citations_batch[th.idx])
       IN /\ results_queue' = Put(results_queue, item)
          /\ threads' = [threads EXCEPT ![t] =
                 [th EXCEPT !.failed = @ \cup {th.citations_batch[th.idx]},
                            !.recorded = Append(@, item), !.pc = "done"]]
    /\ UNCHANGED <<inputs, legacy, client, completions, call, pc, i, j, results, error>>

\* the handler logs the error and records nothing
ExceptDrops(t) ==
    /\ t \in Threads
    /\ threads[t].pc = "except"
    /\ LET th == threads[t]
       IN threads' = [threads EXCEPT ![t] = NextCitation(
              [th EXCEPT !.failed = @ \cup {th.citations_batch[th.idx]}], th.idx + 1)]
    /\ UNCHANGED <<inputs, legacy, client, completions, call, pc, i, j, results_queue, results, error>>

\* the except handler of process_citations_batch
Except(t) ==
    /\ t \in Threads
    /\ threads[t].pc = "except"
    /\ LET th == threads[t]
           item == HandlerResult(th.citations_batch[th.idx])
       IN /\ results_queue' = Put(results_queue, item)
          /\ threads' = [threads EXCEPT ![t] =
                 Record([th EXCEPT !.failed = @ \cup {th.citations_batch[th.idx]}], item)]
    /\ UNCHANGED <<inputs, legacy, client, completions, call, pc, i, j, results, error>>

\* the configuration is checked before the text is looked at: an empty text
\* with a missing key raises
CallCheckingKeyBeforeText ==
    /\ pc = "call"
    /\ IF text = "nonstr"
       THEN pc' = "raised" /\ error' = "TypeError" /\ client' = client
       ELSE IF ~openai_api_key
       THEN pc' = "raised" /\ error' = "ValueError: OPENAI_API_KEY" /\ client' = client
       ELSE IF text = "blank" \/ normalized_citations = <<>>
       THEN pc' = "returned" /\ error' = "none" /\ client' = TRUE
       ELSE pc' = "dispatch" /\ error' = "none" /\ client' = TRUE
    /\ UNCHANGED <<inputs, legacy, completions, call, i, j, threads, results_queue, results>>

\* the client is constructed first, before the argument checks
CallConstructingClientFirst ==
    /\ pc = "call"
    /\ IF ~openai_api_key
       THEN pc' = "raised" /\ error' = "ValueError: OPENAI_API_KEY" /\ client' = client
       ELSE IF text = "nonstr"
       THEN pc' = "raised" /\ error' = "TypeError" /\ client' = TRUE
       ELSE IF text = "blank" \/ normalized_citations = <<>>
       THEN pc' = "returned" /\ error' = "none" /\ client' = TRUE
       ELSE pc' = "dispatch" /\ error' = "none" /\ client' = TRUE
    /\ UNCHANGED <<inputs, legacy, completions, call, i, j, threads, results_queue, results>>

\* -------------------------------------------------------- check_citations
\* lines 227-257: argument checks, normalization, client construction
Call ==
    /\ pc = "call"
    /\ IF text = "nonstr"
       THEN pc' = "raised" /\ error' = "TypeError" /\ client' = client
       ELSE IF text = "blank" \/ normalized_citations = <<>>
       THEN pc' = "returned" /\ error' = "none" /\ client' = client
       ELSE IF ~openai_api_key
       THEN pc' = "raised" /\ error' = "ValueError: OPENAI_API_KEY" /\ client' = client
       ELSE pc' = "dispatch" /\ error' = "none" /\ client' = TRUE
    /\ UNCHANGED <<inputs, legacy, completions, call, i, j, threads, results_queue, results>>

\* the ValueError of range() is swallowed: the loop is skipped
RangeErrorSwallowed ==
    /\ pc = "dispatch"
    /\ batch_size = 0
    /\ pc' = "join"
    /\ error' = error
    /\ UNCHANGED <<inputs, legacy, client, completions, call, i, j, threads, results_queue, results>>

\* range(0, len(normalized_citations), batch_size) with a zero step
RangeError ==
    /\ pc = "dispatch"
    /\ batch_size = 0
    /\ pc' = "raised"
    /\ error' = "ValueError: range"
    /\ UNCHANGED <<inputs, legacy, client, completions, call, i, j, threads, results_queue, results>>

\* the slice ends one element late: consecutive batches overlap
BatchOverlapping(k) == Slice(normalized_citations, k, k + batch_size + 1)

\* batch = normalized_citations[i:i + batch_size]
Batch(k) == Slice(normalized_citations, k, k + batch_size)

\* a pool of max_workers threads: a batch waits while that many are running
StartThreadCapped ==
    /\ pc = "dispatch"
    /\ batch_size > 0
    /\ i < Len(normalized_citations)
    /\ Cardinality({ t \in Threads : threads[t].pc # "done" }) < MAX_WORKERS
    /\ threads' = Append(threads, NewThread(Batch(i)))
    /\ i' = i + batch_size
    /\ UNCHANGED <<inputs, legacy, client, completions, call, pc, j, results_queue, results, error>>

\* one iteration of the dispatch loop: slice the batch, create and start
\* its thread
StartThread ==
    /\ pc = "dispatch"
    /\ batch_size > 0
    /\ i < Len(normalized_citations)
    /\ threads' = Append(threads, NewThread(Batch(i)))
    /\ i' = i + batch_size
    /\ UNCHANGED <<inputs, legacy, client, completions, call, pc, j, results_queue, results, error>>

\* the range is exhausted (or empty, for a negative step)
DispatchDone ==
    /\ pc = "dispatch"
    /\ batch_size # 0
    /\ (batch_size < 0 \/ i >= Len(normalized_citations))
    /\ pc' = "join"
    /\ UNCHANGED <<inputs, legacy, client, completions, call, i, j, threads, results_queue, results, error>>

\* a join that returns at once, whether or not the thread has ended
JoinableWithoutWaiting(t) == t \in Threads

\* thread.join() returns only when the thread has ended
Joinable(t) == threads[t].pc = "done"

Join ==
    /\ pc = "join"
    /\ j < Len(threads)
    /\ Joinable(j + 1)
    /\ j' = j + 1
    /\ UNCHANGED <<inputs, legacy, client, completions, call, pc, i, threads, results_queue, results, error>>

JoinDone ==
    /\ pc = "join"
    /\ j = Len(threads)
    /\ pc' = "drain"
    /\ UNCHANGED <<inputs, legacy, client, completions, call, i, j, threads, results_queue, results, error>>

\* results.append(results_queue.get())
Drain ==
    /\ pc = "drain"
    /\ results_queue # <<>>
    /\ results' = Append(results, Head(results_queue))
    /\ results_queue' = Tail(results_queue)
    /\ UNCHANGED <<inputs, legacy, client, completions, call, pc, i, j, threads, error>>

Return ==
    /\ pc = "drain"
    /\ results_queue = <<>>
    /\ pc' = "returned"
    /\ UNCHANGED <<inputs, legacy, client, completions, call, i, j, threads, results_queue, results, error>>

Worker == \E t \in Threads : Request(t) \/ RequestException(t) \/ Wake(t)
                                \/ Validate(t) \/ Except(t) \/ JsonValueError(t)

Dispatcher == Call \/ RangeError \/ StartThread \/ DispatchDone \/ Join \/ JoinDone
                 \/ Drain \/ Return

Next == Dispatcher \/ Worker

Spec == Init /\ [][Next]_vars

\* the steps of thread t
WorkerStep(t) == Request(t) \/ RequestException(t) \/ Wake(t)
                    \/ Validate(t) \/ Except(t) \/ JsonValueError(t)

\* every external call (HTTP request, completion request, sleep) eventually
\* returns or raises, every started thread is scheduled, and the calling
\* thread keeps running
Fairness ==
    /\ WF_vars(Dispatcher)
    /\ \A t \in 1..MaxThreads : WF_vars(WorkerStep(t))

InitFair ==
    /\ TypeInputs(MaxFairCitations, MaxBatchSize, 0..MaxFairRetries, MaxFairRequests,
                  MaxThreads)
    /\ Start

SpecFair == InitFair /\ [][Next]_vars /\ Fairness

\* the dispatch loop alone (no worker has been scheduled yet), on longer
\* citation lists
InitDispatch ==
    /\ TypeInputs(MaxDispatchCitations, MaxDispatchBatchSize, {DEFAULT_MAX_RETRIES},
                  MaxDispatchCitations * DEFAULT_MAX_RETRIES, MaxDispatchCitations)
    /\ Start

NextDispatch == Call \/ RangeError \/ StartThread \/ DispatchDone

SpecDispatch == InitDispatch /\ [][NextDispatch]_vars

\* ---------------------------------- the enrichment client, called directly
\* the two client operations as a caller other than check_citations uses
\* them, with arguments of any shape
Whitespace == {" ", "\t"}

RECURSIVE StripLeft(_)
StripLeft(s) == IF s = <<>> THEN s
                ELSE IF Head(s) \in Whitespace THEN StripLeft(Tail(s)) ELSE s

RECURSIVE StripRight(_)
StripRight(s) == IF s = <<>> THEN s
                 ELSE IF s[Len(s)] \in Whitespace
                 THEN StripRight(SubSeq(s, 1, Len(s) - 1)) ELSE s

\* str.strip()
Strip(s) == StripRight(StripLeft(s))

\* only the empty string counts as empty: the citation is not stripped
IsBlankUnstripped(chars) == chars = <<>>

\* not citation.strip()
IsBlank(chars) == Strip(chars) = <<>>

\* citation strings a caller may pass
CitationStrings ==
    { <<>>, <<" ">>, <<"\t", " ">>, <<"U", "S">>, <<" ", "U", " ", "S", " ">> }

\* citation lists a caller may pass
CitationLists == { <<>>, <<1>>, <<1, 2>> }

InitClient ==
    /\ text = "text"
    /\ openai_api_key \in BOOLEAN
    /\ court_listener_token \in BOOLEAN
    /\ batch_size = 1
    /\ max_retries \in (-1)..MaxRetries
    /\ normalized_citations = <<>>
    /\ pc = "client"
    /\ i = 0
    /\ j = 0
    /\ threads = <<>>
    /\ results_queue = <<>>
    /\ results = <<>>
    /\ error = "none"
    /\ client = FALSE
    /\ completions = 0
    /\ call = NoCall
    /\ legacy = LegacyIdle

\* fetch_case_data_from_court_listener(citation, max_retries), lines 133-145:
\* the argument checks, then the first iteration of the retry loop
FetchCall(typed, chars) ==
    /\ pc = "client"
    /\ call' = DirectCall("fetch", typed, chars, FALSE)
    /\ IF ~typed
       THEN pc' = "raised" /\ error' = "TypeError" /\ threads' = threads
       ELSE IF IsBlank(chars)
       THEN pc' = "raised" /\ error' = "ValueError: citation" /\ threads' = threads
       ELSE pc' = "fetch" /\ error' = error /\ threads' = <<NewThread(<<chars>>)>>
    /\ UNCHANGED <<inputs, legacy, client, completions, i, j, results_queue, results>>

\* the lookup returns to its caller
FetchReturn ==
    /\ pc = "fetch"
    /\ threads[1].pc = "gpt"
    /\ pc' = "returned"
    /\ results' = <<threads[1].court_listener_data>>
    /\ UNCHANGED <<inputs, legacy, client, completions, call, i, j, threads, results_queue, error>>

\* the lookup raises to its caller
FetchRaise ==
    /\ pc = "fetch"
    /\ threads[1].pc = "except"
    /\ pc' = "raised"
    /\ error' = "ValueError"
    /\ UNCHANGED <<inputs, legacy, client, completions, call, i, j, threads, results_queue, results>>

\* gpt4_parse_citations(citations, client) from call to return
GptCall(typed, citations, given) ==
    /\ pc = "client"
    /\ call' = DirectCall("gpt", typed, citations, given)
    /\ \E ok \in BOOLEAN :
          LET out == Gpt4ParseCitations(typed, citations, given, ok)
          IN /\ completions' = completions + out.requests
             /\ client' = (client \/ out.constructs)
             /\ IF out.error # "none"
                THEN pc' = "raised" /\ error' = out.error /\ results' = results
                ELSE pc' = "returned" /\ error' = error /\ results' = <<out.value>>
    /\ UNCHANGED <<inputs, legacy, i, j, threads, results_queue>>

Lookup ==
    \E t \in Threads :
        \/ Request(t)
        \/ RequestException(t)
        \/ Wake(t)
        \/ JsonValueError(t)

NextClient ==
    \/ \E chars \in CitationStrings : FetchCall(TRUE, chars)
    \/ FetchCall(FALSE, <<>>)
    \/ \E citations \in CitationLists, given \in BOOLEAN :
          GptCall(TRUE, citations, given)
    \/ \E given \in BOOLEAN : GptCall(FALSE, <<>>, given)
    \/ Lookup
    \/ FetchReturn
    \/ FetchRaise

SpecClient == InitClient /\ [][NextClient]_vars

\* ------------------------------------------------ the legacy pipeline (arm.py)
LegacyThreads == 1..Len(legacy.threads)

\* the worker moves on to citation k of its batch, or ends
LegacyNextCitation(th, k) ==
    IF k <= Len(th.citations_batch)
    THEN [th EXCEPT !.idx = k, !.pc = "request", !.court_listener_data = None]
    ELSE [th EXCEPT !.idx = k, !.pc = "done", !.court_listener_data = None]

\* threading.Thread(target=process_citations_batch, args=(batch, results))
LegacyNewThread(batch) ==
    LegacyNextCitation([citations_batch |-> batch, idx |-> 1, pc |-> "request",
                        court_listener_data |-> None], 1)

\* arm.py's fetch_case_data_from_court_listener when requests.get returned
\* r: the JSON body on 200, None otherwise; a JSON decoding error is not
\* caught and ends the thread
OnLegacyResponse(th, r) ==
    LET c == th.citations_batch[th.idx] IN
    IF r.status = 200 THEN
        IF r.json_ok
        THEN [th EXCEPT !.pc = "gpt", !.court_listener_data = <<"json", c>>]
        ELSE [th EXCEPT !.pc = "dead"]
    ELSE [th EXCEPT !.pc = "gpt", !.court_listener_data = None]

\* arm.py's gpt4_parse_citations: the content of the completion, or None
\* when the request raised
LegacyGpt4ParseCitations(citations, ok) ==
    IF ok THEN <<"feedback">> \o citations ELSE None

\* an unsynchronised store into the slot of the last entry
LegacyAppendOverwriting(list, item) ==
    IF list = <<>> THEN <<item>> ELSE [list EXCEPT ![Len(list)] = item]

\* results.append(...) on the list the threads share
LegacyAppend(list, item) == Append(list, item)

\* the single HTTP request of the lookup is answered
LegacyRequest(t) ==
    /\ t \in LegacyThreads
    /\ legacy.threads[t].pc = "request"
    /\ \E r \in Responses :
          legacy' = [legacy EXCEPT !.threads[t] = OnLegacyResponse(@, r)]
    /\ UNCHANGED <<inputs, client, completions, call, pc, i, j, threads,
                   results_queue, results, error>>

\* requests.get raises: nothing catches it and the thread ends
LegacyRequestException(t) ==
    /\ t \in LegacyThreads
    /\ legacy.threads[t].pc = "request"
    /\ legacy' = [legacy EXCEPT !.threads[t].pc = "dead"]
    /\ UNCHANGED <<inputs, client, completions, call, pc, i, j, threads,
                   results_queue, results, error>>

\* gpt4_parse_citations([str(citation)]) and results.append of the tuple
LegacyValidate(t) ==
    /\ t \in LegacyThreads
    /\ legacy.threads[t].pc = "gpt"
    /\ \E ok \in BOOLEAN :
          LET th == legacy.threads[t]
              c == th.citations_batch[th.idx]
              gpt4_feedback == LegacyGpt4ParseCitations(<<c>>, ok)
              item == <<c, gpt4_feedback, th.court_listener_data>>
          IN legacy' = [legacy EXCEPT
                 !.results = LegacyAppend(@, item),
                 !.threads[t] = LegacyNextCitation(th, th.idx + 1)]
    /\ UNCHANGED <<inputs, client, completions, call, pc, i, j, threads,
                   results_queue, results, error>>

\* arm.py's check_citations is called with the same text; the two runs share
\* no state and may overlap in any way
LegacyCall ==
    /\ legacy.pc = "idle"
    /\ legacy' = [legacy EXCEPT !.pc = "dispatch"]
    /\ UNCHANGED <<inputs, client, completions, call, pc, i, j, threads,
                   results_queue, results, error>>

\* batch = normalized_citations[i:i + batch_size]
LegacyBatch(k) == Slice(normalized_citations, k, k + LEGACY_BATCH_SIZE)

\* one iteration of arm.py's dispatch loop
LegacyStartThread ==
    /\ legacy.pc = "dispatch"
    /\ legacy.i < Len(normalized_citations)
    /\ legacy' = [legacy EXCEPT
           !.threads = Append(@, LegacyNewThread(LegacyBatch(legacy.i))),
           !.i = @ + LEGACY_BATCH_SIZE]
    /\ UNCHANGED <<inputs, client, completions, call, pc, i, j, threads,
                   results_queue, results, error>>

LegacyDispatchDone ==
    /\ legacy.pc = "dispatch"
    /\ legacy.i >= Len(normalized_citations)
    /\ legacy' = [legacy EXCEPT !.pc = "join"]
    /\ UNCHANGED <<inputs, client, completions, call, pc, i, j, threads,
                   results_queue, results, error>>

\* thread.join() returns when the thread has ended, normally or not
LegacyJoin ==
    /\ legacy.pc = "join"
    /\ legacy.j < Len(legacy.threads)
    /\ legacy.threads[legacy.j + 1].pc \in {"done", "dead"}
    /\ legacy' = [legacy EXCEPT !.j = @ + 1]
    /\ UNCHANGED <<inputs, client, completions, call, pc, i, j, threads,
                   results_queue, results, error>>

\* return results
LegacyReturn ==
    /\ legacy.pc = "join"
    /\ legacy.j = Len(legacy.threads)
    /\ legacy' = [legacy EXCEPT !.pc = "returned"]
    /\ UNCHANGED <<inputs, client, completions, call, pc, i, j, threads,
                   results_queue, results, error>>

\* ---------------------------------------------- the two pipelines compared
\* the lookup of thread t gets 200 with a JSON body on its first request
RequestOk(t) ==
    /\ Request(t)
    /\ threads'[t].pc = "gpt"
    /\ threads'[t].court_listener_data # None

\* the validation call of thread t returns normally
ValidateOk(t) ==
    /\ Validate(t)
    /\ results_queue'[Len(results_queue')][2] # None

LegacyRequestOk(t) ==
    /\ LegacyRequest(t)
    /\ legacy'.threads[t].pc = "gpt"
    /\ legacy'.threads[t].court_listener_data # None

LegacyValidateOk(t) ==
    /\ LegacyValidate(t)
    /\ legacy'.results[Len(legacy'.results)][2] # None

InitEquiv ==
    /\ text = "text"
    /\ openai_api_key = TRUE
    /\ court_listener_token = TRUE
    /\ batch_size = DEFAULT_BATCH_SIZE
    /\ max_retries = DEFAULT_MAX_RETRIES
    /\ normalized_citations \in { Citations(n) : n \in 0..MaxEquivCitations }
    /\ Start

NextEquiv ==
    \/ Call
    \/ StartThread
    \/ DispatchDone
    \/ \E t \in Threads : RequestOk(t) \/ ValidateOk(t)
    \/ Join
    \/ JoinDone
    \/ Drain
    \/ Return
    \/ LegacyCall
    \/ LegacyStartThread
    \/ LegacyDispatchDone
    \/ \E t \in LegacyThreads : LegacyRequestOk(t) \/ LegacyValidateOk(t)
    \/ LegacyJoin
    \/ LegacyReturn

SpecEquiv == InitEquiv /\ [][NextEquiv]_vars

\* =================================================================== claims
N == Len(normalized_citations)

\* check_citations got past its argument checks and the client construction
\* with a usable batch size
Dispatched == text = "text" /\ N >= 1 /\ openai_api_key /\ batch_size >= 1

Range(seq) == { seq[k] : k \in DOMAIN seq }

Occurrences(seq, c) == Cardinality({ k \in DOMAIN seq : seq[k][1] = c })

\* C1: for N >= 1 citations, a batch size >= 1 and any outcomes of the lookups
\* and validation calls, check_citations returns exactly N tuples, exactly one
\* per citation; a citation whose processing raised has the tuple
\* (citation, None, None)
C1_OneResultPerCitation ==
    (pc = "returned" /\ Dispatched) =>
        /\ Len(results) = N
        /\ \A c \in 1..N : Occurrences(results, c) = 1
        /\ \A t \in Threads : \A c \in threads[t].failed :
              \E k \in DOMAIN results : results[k] = <<c, None, None>>

\* a run over MaxCitations citations returned: one citation raised, one got
\* its payload and one lookup ended with None
C1_Witness ==
    /\ pc = "returned" /\ Dispatched /\ N = MaxCitations
    /\ \E t \in Threads : threads[t].failed # {}
    /\ \E k \in DOMAIN results : results[k][3] # None /\ results[k][2] # None
    /\ \E k \in DOMAIN results : results[k][3] = None /\ results[k][2] # None

Ceil(a, b) == (a + b - 1) \div b

RECURSIVE Concat(_, _)
\* the batches of the first n threads, one after the other
Concat(ths, n) == IF n = 0 THEN <<>> ELSE Concat(ths, n - 1) \o ths[n].citations_batch

\* C2: the threads started so far hold consecutive, non-overlapping batches of
\* exactly batch_size citations (only the last batch of the whole list may be
\* shorter, none is empty); once the loop has ended there is one thread per
\* batch, Ceil(N / batch_size) in all, and the batches together are the
\* citation sequence; 12 citations with batch size 5 give batches of 5, 5, 2
C2_BatchesPartition ==
    (pc \in {"dispatch", "join"} /\ batch_size >= 1) =>
        /\ Concat(threads, Len(threads)) = SubSeq(normalized_citations, 1, Min(i, N))
        /\ \A t \in Threads :
              /\ threads[t].citations_batch # <<>>
              /\ Len(threads[t].citations_batch) =
                    IF t * batch_size <= N THEN batch_size ELSE N - (t - 1) * batch_size
        /\ pc = "join" =>
              /\ Len(threads) = Ceil(N, batch_size)
              /\ Concat(threads, Len(threads)) = normalized_citations
              /\ (N = 12 /\ batch_size = 5) =>
                    [t \in Threads |-> Len(threads[t].citations_batch)] = <<5, 5, 2>>

\* 12 citations were dispatched with batch size 5 to 3 threads
C2_Witness ==
    /\ pc = "join" /\ N = 12 /\ batch_size = 5 /\ Len(threads) = 3
    /\ threads[3].citations_batch = <<11, 12>>

BagOfSeq(seq) == [x \in Range(seq) |-> Cardinality({ k \in DOMAIN seq : seq[k] = x })]

RECURSIVE AllRecorded(_)
\* what the first n threads have recorded
AllRecorded(n) == IF n = 0 THEN <<>> ELSE AllRecorded(n - 1) \o threads[n].recorded

IsPrefix(a, b) == Len(a) <= Len(b) /\ SubSeq(b, 1, Len(a)) = a

\* C3: under every interleaving of the puts, the returned collection holds
\* every tuple a worker recorded exactly once (none lost, none duplicated),
\* and an entry, once in the collection, is never changed: the collection
\* only grows at its end
C3_NoLossNoOverwrite ==
    /\ [](pc = "returned" /\ Dispatched =>
            /\ BagOfSeq(results) = BagOfSeq(AllRecorded(Len(threads)))
            /\ \A x \in Range(results) : BagOfSeq(results)[x] = 1)
    /\ [][IsPrefix(results \o results_queue, results' \o results_queue')]_vars

\* the put of the second worker fell between the two puts of the first
C3_Witness ==
    /\ pc = "returned" /\ Dispatched /\ Len(threads) = 2 /\ Len(results) = 3
    /\ results[1][1] = 1 /\ results[2][1] = 3 /\ results[3][1] = 2

\* C4: a citation whose processing raised is recorded as (citation, None,
\* None) and the worker goes on with the next citation: each worker records
\* its citations one by one in batch order and ends only after the last
\* citation of its batch, whatever failed before
C4_FailureIsolated ==
    \A t \in Threads :
        LET th == threads[t] IN
        /\ Len(th.recorded) = th.idx - 1
        /\ \A k \in DOMAIN th.recorded :
              /\ th.recorded[k][1] = th.citations_batch[k]
              /\ th.citations_batch[k] \in th.failed =>
                    th.recorded[k] = <<th.citations_batch[k], None, None>>
        /\ th.failed \subseteq { th.citations_batch[k] : k \in 1..(th.idx - 1) }
        /\ (th.pc = "done") = (th.idx = Len(th.citations_batch) + 1)

\* the first citation of a batch of two raised, the second one of the same
\* batch got feedback and payload, and so did the citation of another worker
C4_Witness ==
    \E t, u \in Threads :
        /\ t # u
        /\ threads[t].pc = "done" /\ Len(threads[t].citations_batch) = 2
        /\ threads[t].failed = {threads[t].citations_batch[1]}
        /\ threads[t].recorded[2][2] # None /\ threads[t].recorded[2][3] # None
        /\ threads[u].pc = "done" /\ threads[u].failed = {}
        /\ threads[u].recorded[1][2] # None /\ threads[u].recorded[1][3] # None

RECURSIVE CountRecorded(_)
CountRecorded(n) == IF n = 0 THEN 0 ELSE CountRecorded(n - 1) + Len(threads[n].recorded)

\* C5: check_citations reads the queue and returns only when every thread it
\* started has ended (and every batch has been given its thread); what it
\* reads is then everything any worker recorded
C5_ReturnsAfterAllWorkers ==
    pc \in {"drain", "returned"} =>
        /\ batch_size > 0 => i >= N
        /\ \A t \in Threads : threads[t].pc = "done"
        /\ Len(results) + Len(results_queue) = CountRecorded(Len(threads))
        /\ pc = "returned" =>
              \A t \in Threads : Range(threads[t].recorded) \subseteq Range(results)

\* the queue of two or more finished workers is being read
C5_Witness ==
    /\ pc = "drain" /\ Len(threads) >= 2
    /\ results # <<>> /\ results_queue # <<>>

\* an argument of the wrong shape: text that is not a string, or a batch size
\* of 0, which range() rejects
MalformedInput == text = "nonstr" \/ batch_size = 0

MissingConfiguration == ~openai_api_key

Last(seq) == seq[Len(seq)]

\* the lookup of the thread's current citation has returned / has raised
FetchReturned(th) == th.pc = "gpt"

FetchRaised(th) == th.pc = "except"

InFetch(th) == th.pc \in {"request", "sleep", "gpt", "except"}

IsServerError(e) == e.status >= 500

IsNetworkException(e) == e = NoResponse

IsFailure(e) == IsServerError(e) \/ IsNetworkException(e)

Is429(e) == e.status = 429

IsBadJson(e) == e.status = 200 /\ ~e.json_ok

\* C7: for a valid citation string the lookup never raises, whatever the
\* attempts' outcomes (violated: int() of a Retry-After value that is not an
\* integer, and on older requests versions json() of a malformed body, raise
\* ValueError out of the function)
C7_LookupNeverRaises == \A t \in Threads : ~FetchRaised(threads[t])

\* C8: when every attempt of a lookup ends in a 5xx response or a network
\* exception, the lookup makes exactly max_retries requests, then returns
\* None, and does not raise
C8_FailuresShareOneBudget ==
    \A t \in Threads :
        LET th == threads[t] IN
        (InFetch(th) /\ \A k \in DOMAIN th.hist : IsFailure(th.hist[k])) =>
            /\ ~FetchRaised(th)
            /\ Len(th.hist) <= max_retries
            /\ FetchReturned(th) <=> Len(th.hist) = max_retries
            /\ FetchReturned(th) => th.court_listener_data = None

\* with the default max_retries a lookup returned None after three failed
\* attempts, server errors and network exceptions mixed
C8_Witness ==
    \E t \in Threads :
        LET th == threads[t] IN
        /\ max_retries = DEFAULT_MAX_RETRIES /\ FetchReturned(th)
        /\ Len(th.hist) = DEFAULT_MAX_RETRIES
        /\ \A k \in DOMAIN th.hist : IsFailure(th.hist[k])
        /\ \E k \in DOMAIN th.hist : IsServerError(th.hist[k])
        /\ \E k \in DOMAIN th.hist : IsNetworkException(th.hist[k])
        /\ th.court_listener_data = None

\* a 429 whose Retry-After header is absent or a decimal integer
IsTimed429(e) == Is429(e) /\ (~e.has_retry_after \/ IntParses(e.retry_after))

\* the seconds such a 429 asks for
Seconds(e) == IF e.has_retry_after THEN IntOf(e.retry_after) ELSE 60

\* the k-th attempt of the lookup was such a 429: the thread sleeps (or has
\* slept) for exactly its seconds
SleepsAsAsked(th, k) ==
    IF k = Len(th.hist) /\ th.pc = "sleep"
    THEN th.wait = Seconds(th.hist[k])
    ELSE Len(th.sleeps) >= k /\ th.sleeps[k] = Seconds(th.hist[k])

\* ... and once the sleep is over another request has been issued or is the
\* thread's next step
RequestsAgain(th, k) ==
    (k = Len(th.hist) /\ th.pc = "sleep") \/ k < Len(th.hist) \/ th.pc = "request"

\* a lookup that had a 429 and whose last attempt returned a well-formed 200
\* returns that response's payload
PayloadAfter429(th) ==
    ( /\ th.pc \in {"gpt", "except"} /\ th.hist # <<>>
      /\ \E k \in DOMAIN th.hist : Is429(th.hist[k])
      /\ Last(th.hist).status = 200 /\ Last(th.hist).json_ok )
    => /\ FetchReturned(th)
       /\ th.court_listener_data = <<"json", th.citations_batch[th.idx]>>

Count(seq, P(_)) == Cardinality({ k \in DOMAIN seq : P(seq[k]) })

\* an attempt that failed: a server error, a network exception or another
\* caught RequestException
IsFailedAttempt(e) == IsFailure(e) \/ IsBadJson(e)

\* the lookup fell out of its retry loop: it returned None and not because
\* of a terminal response
GaveUp(th) ==
    /\ FetchReturned(th) /\ th.court_listener_data = None
    /\ th.hist # <<>> => Is429(Last(th.hist)) \/ IsFailedAttempt(Last(th.hist))

\* C10 as stated: 429 responses do not use up the retry budget, so a lookup
\* gives up only when max_retries of its attempts have failed (violated:
\* with max_retries = 3 the attempts 429, 500, 500 make the lookup give up
\* after two failures)
C10_429OutsideBudget ==
    \A t \in Threads :
        GaveUp(threads[t]) => Count(threads[t].hist, IsFailedAttempt) = max_retries

\* C10 amended: a 429 response is a wait-and-retry that uses up one of the
\* max_retries attempts just as a failed attempt does: a lookup never makes
\* more than max_retries requests, and it gives up exactly when its 429
\* responses and failed attempts together number max_retries; until then
\* it retries after every 429
C10_429CountsAsAttempt ==
    \A t \in Threads :
        LET th == threads[t] IN
        InFetch(th) =>
            /\ Len(th.hist) <= max_retries
            /\ GaveUp(th) =>
                  Count(th.hist, Is429) + Count(th.hist, IsFailedAttempt) = max_retries
            /\ (th.hist # <<>> /\ IsTimed429(Last(th.hist)) /\ Len(th.hist) < max_retries)
                  => th.pc \in {"sleep", "request"}

\* with max_retries = 3 a lookup gave up after a 429 and two failures
C10_Witness ==
    \E t \in Threads :
        LET th == threads[t] IN
        /\ max_retries = 3 /\ GaveUp(th) /\ Len(th.hist) = 3
        /\ Is429(th.hist[1])
        /\ IsFailure(th.hist[2]) /\ IsFailure(th.hist[3])

\* ------------------------------------------------------------------- C11
IsClientError(r) == r.status \in 400..499 /\ r.status # 429

\* C11: a 4xx response other than 429 ends the lookup at once: it is the last
\* response of the lookup, the lookup has returned None, and no sleep follows
\* it (every sleep of the lookup precedes it), whatever attempts remain.
C11_ClientErrorIsTerminal ==
    \A t \in Threads :
        LET th == threads[t] IN
        \A k \in 1..Len(th.hist) :
            IsClientError(th.hist[k]) =>
                /\ k = Len(th.hist)
                /\ FetchReturned(th)
                /\ th.court_listener_data = None
                /\ th.wait = 0
                /\ Len(th.sleeps) = k - 1

\* a 404 on the second of three attempts ended the lookup with one attempt left
C11_Witness ==
    \E t \in Threads :
        LET th == threads[t] IN
        /\ max_retries = DEFAULT_MAX_RETRIES
        /\ Len(th.hist) = 2
        /\ IsServerError(th.hist[1])
        /\ IsClientError(th.hist[2])
        /\ FetchReturned(th)
        /\ th.court_listener_data = None
        /\ Len(th.sleeps) = 1

\* ------------------------------------------------------------------- C12
\* the citations whose processing raised and was recorded by the handler
Failed == UNION { threads[t].failed : t \in Threads }

\* the recorded tuples that come from a validation call that returned
Validated ==
    LET all == AllRecorded(Len(threads))
    IN { k \in DOMAIN all : all[k][1] \notin Failed }

\* C12: a validation call on a non-empty list sends exactly one completion
\* request, whether the request succeeds or fails: the number of completion
\* requests always equals the number of validation calls made. A call whose
\* request failed returned None (the feedback of its tuple) and raised nothing:
\* the citation is not one the handler recorded, and its tuple keeps the
\* metadata of the lookup.
C12_ValidationIsBestEffort ==
    LET all == AllRecorded(Len(threads)) IN
    /\ completions = Cardinality(Validated)
    /\ \A k \in Validated :
          all[k][2] \in {None, <<"feedback", all[k][1]>>}

\* a validation call failed after a successful lookup: one request was sent,
\* the tuple has no feedback but has the payload, and the worker went on
C12_Witness ==
    \E t \in Threads :
        LET th == threads[t] IN
        /\ Len(th.recorded) = 1
        /\ th.failed = {}
        /\ th.recorded[1][2] = None
        /\ th.recorded[1][3] # None
        /\ completions = 1
        /\ th.pc = "request"
        /\ th.idx = 2

\* ------------------------------------------------------------------- C13
\* nothing of the enrichment has happened: no thread was started (so no
\* lookup request was sent), no completion request was sent, no client was
\* constructed and nothing was recorded
NoEnrichmentWork ==
    /\ threads = <<>>
    /\ completions = 0
    /\ ~client
    /\ results_queue = <<>>
    /\ results = <<>>

\* C13: check_citations called with a text that is not a string raises
\* TypeError, and does so before anything else: in every state after the call
\* began no thread has been started, no lookup or validation request has been
\* sent and no client has been constructed, whatever the configuration.
C13_NonStringTextRaisesFirst ==
    text = "nonstr" =>
        /\ pc \in {"call", "raised"}
        /\ pc = "raised" => error = "TypeError"
        /\ NoEnrichmentWork

\* the type error was raised although the OpenAI key is missing as well
C13_Witness ==
    /\ text = "nonstr"
    /\ ~openai_api_key
    /\ pc = "raised"
    /\ error = "TypeError"
    /\ NoEnrichmentWork

\* ------------------------------------------------------------------- C14
\* nothing was sent: no lookup request, no completion request, and no client
\* was constructed
NoIO == threads = <<>> /\ completions = 0 /\ ~client

\* C14: both client operations reject a malformed argument before any I/O.
\* The lookup called with a non-string raises TypeError and called with an
\* empty or whitespace-only string raises ValueError, with no HTTP request
\* sent; the validation call given a non-list raises TypeError and given an
\* empty list raises ValueError, with no completion request sent.
C14_MalformedArgumentRejectedBeforeIO ==
    /\ (call.fn = "fetch" /\ ~call.typed) =>
          pc = "raised" /\ error = "TypeError" /\ NoIO
    /\ (call.fn = "fetch" /\ call.typed
          /\ \A k \in DOMAIN call.value : call.value[k] \in Whitespace) =>
          pc = "raised" /\ error = "ValueError: citation" /\ NoIO
    /\ (call.fn = "gpt" /\ ~call.typed) =>
          pc = "raised" /\ error = "TypeError" /\ NoIO
    /\ (call.fn = "gpt" /\ call.typed /\ call.value = <<>>) =>
          pc = "raised" /\ error = "ValueError: citations" /\ NoIO

\* a whitespace-only citation was rejected by the lookup
C14_Witness ==
    /\ call.fn = "fetch"
    /\ call.typed
    /\ call.value = <<"\t", " ">>
    /\ pc = "raised"
    /\ error = "ValueError: citation"
    /\ NoIO

MissingCredentialErrors ==
    { e \in {"ValueError: OPENAI_API_KEY", "ValueError: COURT_LISTENER_TOKEN"} :
        \/ e = "ValueError: OPENAI_API_KEY" /\ ~openai_api_key
        \/ e = "ValueError: COURT_LISTENER_TOKEN" /\ ~court_listener_token }

\* C16: when check_citations is given a text with citations and a required
\* credential (the OpenAI API key or the CourtListener token) is missing, the
\* call fails with a configuration error naming a missing variable before
\* anything else happens: no thread is started, no request is sent and no
\* client is constructed.
C16_CredentialsValidatedFirst ==
    (text = "text" /\ N >= 1 /\ MissingCredentialErrors # {}) =>
        /\ pc \in {"call", "raised"}
        /\ pc = "raised" => error \in MissingCredentialErrors
        /\ NoEnrichmentWork

\* ------------------------------------------------------------------- C17
\* the collection: what check_citations has read followed by the queue
Collection == results \o results_queue

\* the tuples of seq that belong to the citations of batch, in seq's order
OfBatch(seq, batch) == SelectSeq(seq, LAMBDA e : e[1] \in Range(batch))

\* C17: a worker processes its batch strictly in order, one citation at a
\* time: while it works on the citation at position idx (lookup, then
\* validation or handler) it has recorded exactly the tuples of the idx - 1
\* citations before it, in batch order, and nothing of a later one; the
\* tuples of any one batch therefore appear in the collection, and in the
\* returned list, in the batch's order.
C17_BatchOrderKept ==
    \A t \in Threads :
        LET th == threads[t] IN
        /\ Len(th.recorded) = th.idx - 1
        /\ th.idx <= Len(th.citations_batch) + 1
        /\ (th.pc = "done") = (th.idx = Len(th.citations_batch) + 1)
        /\ \A k \in DOMAIN th.recorded : th.recorded[k][1] = th.citations_batch[k]
        /\ OfBatch(Collection, th.citations_batch) = th.recorded

\* returned with the tuple of the second batch ahead of both tuples of the
\* first batch, which are in their batch's order
C17_Witness ==
    /\ pc = "returned"
    /\ Len(threads) = 2
    /\ threads[1].citations_batch = <<1, 2>>
    /\ threads[2].citations_batch = <<3>>
    /\ Len(results) = 3
    /\ results[1][1] = 3
    /\ results[2][1] = 1
    /\ results[3][1] = 2

\* ------------------------------------------------------------------- C18
\* the threads that have been started and have not ended
Running == { t \in Threads : threads[t].pc # "done" }

\* C18: workers are started eagerly and without a cap. While batches remain
\* the dispatcher has waited on no thread and can start the next one however
\* many are running; when it turns to waiting, every batch has its thread
\* (ceil(N / batch_size) of them), none has been waited on, and as many
\* threads may be running at once as there are batches, more than
\* max_workers included.
C18_WorkersStartedEagerlyUncapped ==
    /\ pc = "dispatch" =>
          /\ j = 0
          /\ (batch_size > 0 /\ i < N) => ENABLED StartThread
    /\ (pc = "join" /\ batch_size >= 1) =>
          /\ j = 0
          /\ Len(threads) = Ceil(N, batch_size)

\* twelve batches, twelve threads running at once when the dispatcher starts
\* to wait: more than max_workers
C18_Witness ==
    /\ pc = "join"
    /\ j = 0
    /\ Len(threads) = Ceil(N, batch_size)
    /\ Cardinality(Running) = Len(threads)
    /\ Cardinality(Running) > MAX_WORKERS

\* ------------------------------------------------------------------- C19
\* the thread is inside a network call or a sleep of its lookup
Blocked(th) == th.pc \in {"request", "sleep"}

\* thread u can take the step its position calls for
CanStep(u) ==
    LET th == threads[u] IN
    /\ th.pc = "request" => ENABLED Request(u) /\ ENABLED RequestException(u)
    /\ th.pc = "sleep" => ENABLED Wake(u)
    /\ th.pc = "gpt" => ENABLED Validate(u)
    /\ th.pc = "except" => ENABLED Except(u)

\* C19: a worker inside a network call, a Retry-After wait or a backoff sleep
\* blocks only itself: in every such state every other worker that has not
\* ended can take its next step (its request is answered, its sleep ends, it
\* records its result), and the dispatcher, if batches remain, can start the
\* next thread.
C19_BlockedWorkerBlocksOnlyItself ==
    \A t \in Threads :
        Blocked(threads[t]) =>
            /\ \A u \in Threads \ {t} : CanStep(u)
            /\ (pc = "dispatch" /\ batch_size > 0 /\ i < N) => ENABLED StartThread

\* the second worker is in the Retry-After wait of its first request while the
\* first has recorded a result and is sending the request of its next citation
C19_Witness ==
    /\ Len(threads) = 2
    /\ threads[2].pc = "sleep"
    /\ threads[2].wait = DEFAULT_RETRY_AFTER
    /\ Len(threads[2].hist) = 1
    /\ threads[2].recorded = <<>>
    /\ Len(threads[1].recorded) = 1
    /\ threads[1].pc = "request"

\* ------------------------------------------------------------------- C20
\* thread t ends the processing of its current citation by recording the
\* feedback fb for it
RecordsFeedback(t, fb) ==
    /\ Validate(t) \/ Except(t)
    /\ Last(threads'[t].recorded)[2] = fb

\* C20: the feedback recorded for a citation depends only on the outcome of
\* its validation call, not on its lookup: however the lookup ended (payload,
\* None or an exception), both outcomes of the validation are still open, the
\* feedback text and None, and the worker can record either.
C20_FeedbackIndependentOfLookup ==
    \A t \in Threads :
        LET th == threads[t] IN
        (FetchReturned(th) \/ FetchRaised(th)) =>
            \A fb \in {None, <<"feedback", th.citations_batch[th.idx]>>} :
                ENABLED RecordsFeedback(t, fb)

\* ------------------------------------------------------------------- C21
\* C21: under fair scheduling, with every external call eventually returning
\* or raising, every invocation of check_citations ends; when it got past its
\* argument and configuration checks with a batch size of at least 1 it
\* returns its final list, one tuple per citation, whatever the responses
\* were (unbroken runs of 429, 5xx or exceptions included).
C21_EventuallyReturns ==
    /\ <>(pc \in {"returned", "raised"})
    /\ Dispatched => <>(pc = "returned" /\ Len(results) = N)

\* returned although the lookup obtained no payload in its two attempts and
\* the validation call failed
C21_Witness ==
    /\ pc = "returned"
    /\ N = 1
    /\ max_retries = 2
    /\ Len(results) = N
    /\ \A k \in DOMAIN results : results[k][2] = None /\ results[k][3] = None

\* ------------------------------------------------------------------- C22
\* the ValueErrors check_citations can raise
ValueErrors == {"ValueError: OPENAI_API_KEY", "ValueError: range"}

\* C22: check_citations called with an empty text raises a ValueError.
C22_EmptyTextRaisesValueError ==
    (text = "blank" /\ pc # "call") => (pc = "raised" /\ error \in ValueErrors)

\* ------------------------------------------------------------------- C23
\* after the k-th response of the lookup the thread sleeps, or has slept,
\* for d seconds, and the next request comes only after that sleep
SleepsFor(th, k, d) ==
    IF k = Len(th.hist) /\ Len(th.sleeps) < k
    THEN th.pc = "sleep" /\ th.wait = d /\ Len(th.sleeps) = k - 1
    ELSE Len(th.sleeps) >= k /\ th.sleeps[k] = d

\* C23: after a 5xx response or a network exception on the attempt with
\* zero-based index a < max_retries - 1 the lookup sleeps exactly 2^a seconds
\* before its next request, where a counts every earlier attempt of the call,
\* 429s included: failures from the first attempt on are 1, 2, 4, ... seconds
\* apart.
C23_BackoffDoubles ==
    \A t \in Threads :
        LET th == threads[t] IN
        \A k \in 1..Len(th.hist) :
            (IsFailure(th.hist[k]) /\ k - 1 < max_retries - 1) =>
                SleepsFor(th, k, Pow(2, k - 1))

\* a server error and then a network exception were followed by sleeps of 1
\* and 2 seconds, and the third request has been sent
C23_Witness ==
    \E t \in Threads :
        LET th == threads[t] IN
        /\ Len(th.hist) = 3
        /\ IsServerError(th.hist[1])
        /\ IsNetworkException(th.hist[2])
        /\ th.sleeps = <<1, 2>>

\* ------------------------------------------------------------------- C24
\* a response that the lookup neither takes as a payload nor retries
IsTerminal(r) == r.status \notin {0, 200, 429} /\ r.status < 500

\* the lookup is over: it has returned or raised
FetchEnded(th) == th.pc \notin {"request", "sleep"}

\* the requests of the lookup stay within max_retries, and none is made when
\* max_retries is not positive
WithinBudget(th) ==
    /\ Len(th.hist) <= (IF max_retries > 0 THEN max_retries ELSE 0)
    /\ max_retries <= 0 =>
          th.hist = <<>> /\ FetchReturned(th) /\ th.court_listener_data = None

C25_SleepsOnlyBetweenAttempts ==
    \A t \in Threads :
        LET th == threads[t] IN
        /\ th.pc = "sleep" => Len(th.hist) < max_retries
        /\ (FetchEnded(th) /\ th.hist # <<>>) => Len(th.sleeps) <= Len(th.hist) - 1

\* ------------------------------------------------------------------- C26
\* the k-th response ended the lookup at once: it is the last, the lookup
\* returned None, and no sleep follows it
EndsLookup(th, k) ==
    /\ k = Len(th.hist)
    /\ FetchReturned(th)
    /\ th.court_listener_data = None
    /\ th.wait = 0
    /\ Len(th.sleeps) = k - 1

C27_BatchSizeBelowOne ==
    (text = "text" /\ N >= 1 /\ openai_api_key /\ court_listener_token
        /\ batch_size < 1) =>
        /\ threads = <<>>
        /\ completions = 0
        /\ results_queue = <<>>
        /\ results = <<>>
        /\ batch_size = 0 =>
              /\ pc \in {"call", "dispatch", "raised"}
              /\ pc = "raised" => error = "ValueError: range"
        /\ batch_size < 0 => pc # "raised" /\ error = "none"

\* three citations and batch_size -1: returned the empty list
C27_Witness ==
    /\ N = 3
    /\ batch_size = -1
    /\ openai_api_key
    /\ court_listener_token
    /\ pc = "returned"
    /\ results = <<>>
    /\ threads = <<>>

\* ------------------------------------------------------------------- C28
\* C28: when every lookup gets 200 with a payload on its first request and
\* every validation call returns normally, the hardened pipeline (batch size
\* 5) and the legacy pipeline of arm.py return the same bag of (citation,
\* feedback, metadata) tuples for the same normalized citation list, under
\* every interleaving of their workers.
C28_SameBagAsLegacy ==
    (pc = "returned" /\ legacy.pc = "returned") =>
        BagOfSeq(results) = BagOfSeq(legacy.results)

\* six citations in two batches: both pipelines returned, in different orders
C28_Witness ==
    /\ pc = "returned"
    /\ legacy.pc = "returned"
    /\ N = 6
    /\ Len(results) = 6
    /\ Len(legacy.results) = 6
    /\ results # legacy.results
    /\ BagOfSeq(results) = BagOfSeq(legacy.results)

====
